---- MODULE Spec2Model ----
(***************************************************************************)
(* Model of the OpenMotics gateway vpn_service (src/src/vpn_service.py):   *)
(* the Cloud client, the DataCollector scheduler, the tunnel               *)
(* reconciliation and the watchdog main loop.                              *)
(*                                                                         *)
(* Time is the integer number of seconds time.time() reports.  Calls to    *)
(* collaborators (LED service, configuration store, systemctl, reboot)     *)
(* are recorded as events in `log`, which holds the events of the current  *)
(* tick (main loop) or of the current call (unit harnesses).               *)
(***************************************************************************)
EXTENDS Integers, Sequences, FiniteSets, TLC

VARIABLES
    now,            \* time.time()
    cloud,          \* the Cloud object: [last_connect, sleep_time]
    should_open,    \* value returned by the last Cloud.should_open_vpn call
    raised,         \* TRUE iff the last should_open_vpn call raised to its caller
    last_call,      \* the last should_open_vpn call: its round trip's outcome,
                    \* the Cloud object before it and the time it returned
    log,            \* collaborator calls made so far in the current call / tick
    last_collect,   \* DataCollector.__last_collect of every collector
    under_test,     \* collector harness: the collector being called
    calls,          \* the collect() calls made so far in the harness / in
                    \* the current tick of main()
    pc,             \* position of the process in main()
    iterations,     \* main(): the iteration counter
    vpn_data,       \* main(): the payload built in the current tick
    vpn_active,     \* whether openvpn.service is active
    slept,          \* duration of the last time.sleep() call
    rebooting,      \* TRUE once a reboot command has taken effect
    gateway,        \* the Gateway object: [last_pulse_counters]
    pulse,          \* the last get_pulse_counter_diff call: the Local API's
                    \* answer, the Gateway object before it and the value
                    \* returned; and of all calls so far: their number, the
                    \* number of successful samples, the first and the latest
                    \* sample and the sum of the differences returned
    diff,           \* a __counter_diff call: its arguments and its result
    decoded,        \* a __create_states call: its arguments and its result
    shutters,       \* the ShutterStatus object: [configs, timestamped_states]
    update          \* the last handle_shutter_update call: the status byte,
                    \* the time and the timestamped states before it

cloudVars == <<cloud, should_open, raised, last_call>>
collectorVars == <<last_collect, under_test, calls>>
mainVars == <<pc, iterations, vpn_data, vpn_active, slept, rebooting>>
gatewayVars == <<gateway, pulse, diff>>
shutterVars == <<decoded, shutters, update>>

vars == <<now, cloud, should_open, raised, last_call, log,
          last_collect, under_test, calls,
          pc, iterations, vpn_data, vpn_active, slept, rebooting,
          gateway, pulse, diff, decoded, shutters, update>>

----------------------------------------------------------------------------
(* Program constants *)

REBOOT_TIMEOUT == 900
DEFAULT_SLEEP_TIME == 30
REQUEST_TIMEOUT == 10
MIN_ITERATIONS == 20
DISABLED_SLEEP_TIME == 30
NUM_PULSE_COUNTERS == 24
COUNTER_RANGE == 65536
SHUTTERS_PER_MODULE == 4
SLACK_PERCENT == 95

(* Bounds of the model *)

\* time.time() when the process starts (any value beyond the longest period)
StartTime == 2000
\* the Cloud harness stops advancing time this many seconds after start
CloudMaxElapsed == 60
\* the collector harness stops advancing time this many seconds after start
CollectorMaxElapsed == 61
\* number of collect() calls the collector harness makes
MaxCalls == 3
\* The main loop is explored at the clock readings of two windows after
\* start: the seconds 0..MaxEarlyElapsed, and LateElapsed..MaxElapsed, which
\* lies beyond the reboot timeout.
MaxEarlyElapsed == 60
LateElapsed == 1000
MaxElapsed == 1060
\* the main loop starts no tick once the iteration counter has reached this
MaxIterations == 26
\* number of successful pulse-counter samples the Gateway harness takes
MaxSamples == 3
\* the shutter harness stops advancing time this many seconds after start
\* and makes this many handle_shutter_update calls
ShutterMaxElapsed == 40
MaxUpdates == 3
\* The outage of the control plane begins with the tick of this number; it is
\* followed until the iteration counter or the seconds since start reach
\* these bounds, which lie beyond both thresholds of the watchdog for every
\* sleep_time of the model.
OutageStart == 2
OutageMaxIterations == 100
OutageMaxElapsed == 25000

----------------------------------------------------------------------------
(* Control-plane responses *)

EmptyBody == [k \in {} |-> 0]

SettingNames == {"x", "y"}


Field(present, name, value) == IF present THEN name :> value ELSE EmptyBody

Range(seq) == { seq[i] : i \in 1..Len(seq) }

\* The orders in which iteritems() may yield the entries of a configuration
\* mapping over SettingNames (a dict has no defined order).
ConfigOrders == { <<>>, <<"x">>, <<"y">>, <<"x", "y">>, <<"y", "x">> }

Mapping(ord) == [n \in Range(ord) |-> 1]

TransportFailures == {"network_error", "timeout", "unparseable"}

\* What one HTTP round trip can produce: requests.post or json.loads raises
\* (kind in TransportFailures), or json.loads yields `data`.  `ord` is the
\* iteration order of data['configuration'] and `failing` the settings for
\* which ConfigurationController.set_setting raises.
FailedResponse(k) == [kind |-> k, data |-> EmptyBody, ord |-> <<>>, failing |-> {}]

JsonResponse(hasO, o, hasS, s, hasC, ord, f) ==
    [kind    |-> "json",
     data    |-> Field(hasO, "open_vpn", o) @@ Field(hasS, "sleep_time", s)
                 @@ Field(hasC, "configuration", Mapping(ord)),
     ord     |-> IF hasC THEN ord ELSE <<>>,
     failing |-> IF hasC THEN f \cap Range(ord) ELSE {}]

\* the round trips with sleep_time drawn from sleeps and the configuration
\* entries iterated in one of orders
ResponsesOver(sleeps, orders) ==
    { FailedResponse(k) : k \in TransportFailures }
    \cup
    { JsonResponse(hasO, o, hasS, s, hasC, ord, f) :
        hasO \in BOOLEAN, o \in BOOLEAN, hasS \in BOOLEAN, s \in sleeps,
        hasC \in BOOLEAN, ord \in orders, f \in SUBSET SettingNames }

NoCall(self) == [resp |-> FailedResponse("none"), before |-> self, at |-> 0]

\* the variables of main() while a single object is exercised on its own
MainIdle ==
    /\ pc = "idle"
    /\ iterations = 0
    /\ vpn_data = EmptyBody
    /\ vpn_active = FALSE
    /\ slept = 0
    /\ rebooting = FALSE

----------------------------------------------------------------------------
(* class Cloud *)

\* Cloud.__init__
CloudInit(t) == [last_connect |-> t, sleep_time |-> DEFAULT_SLEEP_TIME]

SetSettingEvent(n, ok) ==
    IF ok THEN (IF n = "x" THEN "set_setting(x)" ELSE "set_setting(y)")
    ELSE (IF n = "x" THEN "set_setting(x) raised" ELSE "set_setting(y) raised")

\* index of the first entry whose set_setting raises, 0 if none does
FirstFailing(ord, failing) ==
    IF \E i \in 1..Len(ord) : ord[i] \in failing
    THEN CHOOSE i \in 1..Len(ord) :
            ord[i] \in failing /\ \A j \in 1..(i - 1) : ord[j] \notin failing
    ELSE 0

\* the set_setting calls the loop over data['configuration'] makes: it stops
\* at the first call that raises
ApplyConfiguration(ord, failing) ==
    LET ff == FirstFailing(ord, failing)
        n  == IF ff = 0 THEN Len(ord) ELSE ff
    IN [i \in 1..n |-> SetSettingEvent(ord[i], i # ff)]

\* an except branch that hands the caller a closed tunnel
OnExceptionClosed(self, events) ==
    [self   |-> self,
     ret    |-> FALSE,
     raised |-> FALSE,
     events |-> events \o <<"set_led(cloud,False)", "set_led(alive,False)">>]

\* the except branch: both LEDs off, True returned, nothing raised
OnException(self, events) ==
    [self   |-> self,
     ret    |-> TRUE,
     raised |-> FALSE,
     events |-> events \o <<"set_led(cloud,False)", "set_led(alive,False)">>]

\* a sleep_time branch whose else falls back to the request timeout
ParseSleepTimeRequestTimeout(data) ==
    IF "sleep_time" \in DOMAIN data THEN data["sleep_time"] ELSE REQUEST_TIMEOUT

\* the sleep_time branch
ParseSleepTime(data) ==
    IF "sleep_time" \in DOMAIN data THEN data["sleep_time"] ELSE DEFAULT_SLEEP_TIME

\* a check that stamps last_connect when the call is made, whatever becomes
\* of the round trip
should_open_vpn_stamped(self, resp, t) ==
    LET s0 == [self EXCEPT !.last_connect = t]
    IN  IF resp.kind # "json"
        THEN OnException(s0, <<"post">>)
        ELSE
            LET data == resp.data
                s1   == [s0 EXCEPT !.sleep_time = ParseSleepTime(data)]
                sets == IF "configuration" \in DOMAIN data
                        THEN ApplyConfiguration(resp.ord, resp.failing)
                        ELSE <<>>
                e1   == <<"post">> \o sets
            IN  IF FirstFailing(resp.ord, resp.failing) # 0
                THEN OnException(s1, e1)
                ELSE
                    LET e2 == e1 \o <<"set_led(cloud,True)", "toggle_led(alive)">>
                    IN  IF "open_vpn" \in DOMAIN data
                        THEN [self |-> s1, ret |-> data["open_vpn"],
                              raised |-> FALSE, events |-> e2]
                        ELSE OnException(s1, e2)

\* Cloud.should_open_vpn with the round trip yielding resp; t is time.time()
\* when the response has been handled
should_open_vpn(self, resp, t) ==
    IF resp.kind # "json"
    THEN OnException(self, <<"post">>)
    ELSE
        LET data == resp.data
            s1   == [self EXCEPT !.sleep_time = ParseSleepTime(data)]
            sets == IF "configuration" \in DOMAIN data
                    THEN ApplyConfiguration(resp.ord, resp.failing)
                    ELSE <<>>
            e1   == <<"post">> \o sets
        IN  IF FirstFailing(resp.ord, resp.failing) # 0
            THEN OnException(s1, e1)
            ELSE
                LET s2 == [s1 EXCEPT !.last_connect = t]
                    e2 == e1 \o <<"set_led(cloud,True)", "toggle_led(alive)">>
                IN  IF "open_vpn" \in DOMAIN data
                    THEN [self |-> s2, ret |-> data["open_vpn"],
                          raised |-> FALSE, events |-> e2]
                    ELSE OnException(s2, e2)

\* Cloud.get_sleep_time
get_sleep_time(self) == self.sleep_time

\* Cloud.get_last_connect
get_last_connect(self) == self.last_connect

\* seconds the round trip takes: a timeout takes the whole request timeout
RequestDuration(resp) == IF resp.kind = "timeout" THEN REQUEST_TIMEOUT ELSE 0

----------------------------------------------------------------------------
(* class Gateway: the pulse counters *)

\* indices of the pulse counters: xrange(0, 24)
CounterIndices == 0..(NUM_PULSE_COUNTERS - 1)

\* None where a list of counters is expected
NoCounters == << >>

\* Gateway.__init__
GatewayInit == [last_pulse_counters |-> NoCounters]

\* a difference that wraps one short of the counter range
counter_diff_short(current, previous) ==
    LET d == current - previous
    IN  IF d >= 0 THEN d ELSE (COUNTER_RANGE - 1) - previous + current

\* Gateway.__counter_diff
counter_diff(current, previous) ==
    LET d == current - previous
    IN  IF d >= 0 THEN d ELSE COUNTER_RANGE - previous + current

\* what do_call("get_pulse_counter_status") hands back: None, a body with
\* success False, or a body with success True and the 24 counters
PulseFailures == {"none", "unsuccessful"}
FailedPulse(k) == [kind |-> k, counters |-> NoCounters]
PulseStatus(counters) == [kind |-> "ok", counters |-> counters]

\* a Gateway that starts with a baseline of zeros
get_pulse_counter_diff_zero_baseline(self, data) ==
    IF data.kind \in PulseFailures
    THEN [self |-> self, ret |-> NoCounters]
    ELSE
        LET counters == data.counters
            last == IF self.last_pulse_counters = NoCounters
                    THEN [i \in CounterIndices |-> 0]
                    ELSE self.last_pulse_counters
        IN  [self |-> [self EXCEPT !.last_pulse_counters = counters],
             ret  |-> [i \in CounterIndices |-> counter_diff(counters[i], last[i])]]

\* a Gateway that drops its baseline when a read fails
get_pulse_counter_diff_forgetful(self, data) ==
    IF data.kind \in PulseFailures
    THEN [self |-> [self EXCEPT !.last_pulse_counters = NoCounters],
          ret  |-> NoCounters]
    ELSE
        LET counters == data.counters
            ret == IF self.last_pulse_counters = NoCounters
                   THEN [i \in CounterIndices |-> 0]
                   ELSE [i \in CounterIndices |->
                            counter_diff(counters[i], self.last_pulse_counters[i])]
        IN  [self |-> [self EXCEPT !.last_pulse_counters = counters],
             ret  |-> ret]

\* Gateway.get_pulse_counter_diff when do_call hands back data
get_pulse_counter_diff(self, data) ==
    IF data.kind \in PulseFailures
    THEN [self |-> self, ret |-> NoCounters]
    ELSE
        LET counters == data.counters
            ret == IF self.last_pulse_counters = NoCounters
                   THEN [i \in CounterIndices |-> 0]
                   ELSE [i \in CounterIndices |->
                            counter_diff(counters[i], self.last_pulse_counters[i])]
        IN  [self |-> [self EXCEPT !.last_pulse_counters = counters],
             ret  |-> ret]

NoPulse ==
    [data |-> FailedPulse("none"), before |-> GatewayInit, ret |-> NoCounters,
     successes |-> 0, calls |-> 0, after_failure |-> FALSE,
     first |-> NoCounters, latest |-> NoCounters,
     sum |-> [i \in CounterIndices |-> 0]]

NoDiff == [current |-> 0, previous |-> 0, done |-> FALSE, result |-> 0]

\* the Gateway variables while another object is exercised
GatewayIdle ==
    /\ gateway = GatewayInit
    /\ pulse = NoPulse
    /\ diff = NoDiff

----------------------------------------------------------------------------
(* class ShutterStatus (master/shutters.py) *)

\* the shutters of one module: range(4)
ShutterIndices == 0..(SHUTTERS_PER_MODULE - 1)

\* (n >> k) & 0x1
Bit(n, k) == (n \div (2 ^ k)) % 2

\* ShutterStatus.__create_states: the states of the 4 shutters of a module
create_states(module_config, module_state) ==
    [i \in ShutterIndices |->
        LET up_down == IF module_config[i].up_down_config = 0 THEN 0 ELSE 1
            up      == Bit(module_state, i * 2 + (1 - up_down))
            down    == Bit(module_state, i * 2 + up_down)
        IN  IF up = 1 THEN "going_up"
            ELSE IF down = 1 THEN "going_down"
            ELSE "stopped"]

\* ShutterStatus.init for one module, at time t
ShutterInit(module_config, module_state, t) ==
    [configs |-> module_config,
     timestamped_states |->
        [i \in ShutterIndices |->
            [t |-> t, state |-> create_states(module_config, module_state)[i]]]]

\* a tracker that wants the whole timer to have run
full_run_no_slack(t0, timer, t) ==
    100 * t0 + 100 * timer <= 100 * t

\* full_run: t0 + 0.95 * timer <= t, both sides multiplied by 100
full_run(t0, timer, t) ==
    100 * t0 + SLACK_PERCENT * timer <= 100 * t

\* the body of the loop of handle_shutter_update for one shutter: its new
\* timestamped state, given the one tracked, the state the update reports
\* and the shutter's configuration
update_shutter(tracked, current, config, t) ==
    IF current = tracked.state
    THEN tracked
    ELSE IF current = "stopped"
    THEN IF tracked.state = "going_up"
         THEN IF full_run(tracked.t, config.timer_up, t)
              THEN [t |-> t, state |-> "up"]
              ELSE [t |-> t, state |-> "stopped"]
         ELSE IF tracked.state = "going_down"
         THEN IF full_run(tracked.t, config.timer_down, t)
              THEN [t |-> t, state |-> "down"]
              ELSE [t |-> t, state |-> "stopped"]
         ELSE tracked
    ELSE [t |-> t, state |-> current]

\* ShutterStatus.handle_shutter_update for the module, at time t
handle_shutter_update(self, status, t) ==
    LET current_state == create_states(self.configs, status)
    IN  [self EXCEPT !.timestamped_states =
            [i \in ShutterIndices |->
                update_shutter(self.timestamped_states[i], current_state[i],
                               self.configs[i], t)]]

\* the configuration of a module all of whose shutters have up_down_config 0
\* and timers of 20 and 40 seconds
IdleConfig ==
    [i \in ShutterIndices |-> [up_down_config |-> 0, timer_up |-> 20, timer_down |-> 40]]

NoDecode == [config |-> IdleConfig, state |-> 0, done |-> FALSE,
             result |-> [i \in ShutterIndices |-> "stopped"]]

NoUpdate ==
    [status |-> 0, at |-> 0, n |-> 0,
     before |-> ShutterInit(IdleConfig, 0, 0).timestamped_states]

\* the ShutterStatus variables while another object is exercised
ShutterIdle ==
    /\ decoded = NoDecode
    /\ shutters = ShutterInit(IdleConfig, 0, 0)
    /\ update = NoUpdate

----------------------------------------------------------------------------
(* class DataCollector *)

None == "None"

\* the collectors main() creates, with their periods
Collectors ==
    {"thermostats", "pulses", "outputs", "power", "update", "errors", "local_ip"}

Period ==
    [c \in Collectors |->
        CASE c = "thermostats" -> 60
          [] c = "pulses"      -> 60
          [] c = "errors"      -> 600
          [] c = "local_ip"    -> 1800
          [] OTHER             -> 0]

\* what the collector's function does when it is invoked: return a value,
\* return None, or raise
Outcomes == {"value", "none", "raise"}

\* a check that lets the window pass completely before collecting again
should_collect_after(period, last, t) ==
    period = 0 \/ t > last + period

\* DataCollector.__should_collect
should_collect(period, last, t) ==
    period = 0 \/ t >= last + period

\* DataCollector.collect at time t, for a collector with the given period and
\* __last_collect, whose function behaves as `outcome` when invoked.
\* Yields the new __last_collect, the value returned and whether the function
\* was invoked.
collect(period, last, outcome, t) ==
    IF should_collect(period, last, t)
    THEN [last    |-> IF period # 0 THEN t ELSE last,
          result  |-> IF outcome = "value" THEN "value" ELSE None,
          invoked |-> TRUE]
    ELSE [last |-> last, result |-> None, invoked |-> FALSE]

----------------------------------------------------------------------------
(* Harness of class DataCollector: one collector, called at arbitrary times *)

\* seconds that may pass between two calls
CollectorSteps == {10, 50, 51}

\* the collectors the harness exercises: one scheduled, one with period 0
HarnessCollectors == {"thermostats", "outputs"}

InitCollector ==
    /\ now = StartTime
    /\ cloud = CloudInit(StartTime)
    /\ should_open = FALSE
    /\ raised = FALSE
    /\ last_call = NoCall(CloudInit(StartTime))
    /\ log = <<>>
    /\ last_collect = [c \in Collectors |-> 0]
    /\ under_test \in HarnessCollectors
    /\ calls = <<>>
    /\ MainIdle
    /\ GatewayIdle
    /\ ShutterIdle

CollectorWait ==
    /\ \E d \in CollectorSteps :
        /\ now + d <= StartTime + CollectorMaxElapsed
        /\ now' = now + d
    /\ UNCHANGED <<shutterVars, gatewayVars, cloudVars, log, collectorVars, mainVars>>

CollectorCall ==
    /\ Len(calls) < MaxCalls
    /\ \E o \in Outcomes :
        LET r == collect(Period[under_test], last_collect[under_test], o, now)
        IN  /\ last_collect' = [last_collect EXCEPT ![under_test] = r.last]
            /\ calls' = Append(calls, [name |-> under_test,
                                       at |-> now, outcome |-> o,
                                       before |-> last_collect[under_test],
                                       after |-> r.last,
                                       result |-> r.result,
                                       invoked |-> r.invoked])
    /\ UNCHANGED <<shutterVars, gatewayVars, now, cloudVars, log, under_test, mainVars>>

NextCollector == CollectorWait \/ CollectorCall

SpecCollector == InitCollector /\ [][NextCollector]_vars

----------------------------------------------------------------------------
(* Harness of class Cloud: one Cloud object, checks at arbitrary times. *)

\* seconds that may pass between two checks
CloudSteps == {30}

\* sleep_time values the responses of the harness carry
CloudSleepTimes == {45}

CloudResponses == ResponsesOver(CloudSleepTimes, ConfigOrders)

InitCloud ==
    /\ now = StartTime
    /\ cloud = CloudInit(StartTime)
    /\ should_open = FALSE
    /\ raised = FALSE
    /\ last_call = NoCall(CloudInit(StartTime))
    /\ log = <<>>
    /\ last_collect = [c \in Collectors |-> 0]
    /\ under_test = "outputs"
    /\ calls = <<>>
    /\ MainIdle
    /\ GatewayIdle
    /\ ShutterIdle

\* time passes between two checks
CloudWait ==
    /\ \E d \in CloudSteps :
        /\ now + d <= StartTime + CloudMaxElapsed
        /\ now' = now + d
    /\ UNCHANGED <<shutterVars, gatewayVars, cloudVars, log, collectorVars, mainVars>>

\* one call of should_open_vpn
CloudCheck ==
    \E resp \in CloudResponses :
        LET t == now + RequestDuration(resp)
            r == should_open_vpn(cloud, resp, t)
        IN  /\ t <= StartTime + CloudMaxElapsed
            /\ now' = t
            /\ cloud' = r.self
            /\ should_open' = r.ret
            /\ raised' = r.raised
            /\ last_call' = [resp |-> resp, before |-> cloud, at |-> t]
            /\ log' = r.events
            /\ UNCHANGED <<shutterVars, gatewayVars, collectorVars, mainVars>>

NextCloud == CloudWait \/ CloudCheck

SpecCloud == InitCloud /\ [][NextCloud]_vars

----------------------------------------------------------------------------
(* Harness of Gateway.__counter_diff: one call on a pair of counter values *)

\* the counter values the calls are made on: both ends of the 16-bit range,
\* its middle, and the values of ordinary and wrapped differences
CounterValues == {0, 1, 5, 40, 100, 32767, 32768, 65530, 65534, 65535}

\* the variables of the Cloud object and the collectors while the Gateway
\* is exercised
CloudIdle ==
    /\ now = StartTime
    /\ cloud = CloudInit(StartTime)
    /\ should_open = FALSE
    /\ raised = FALSE
    /\ last_call = NoCall(CloudInit(StartTime))
    /\ log = <<>>
    /\ last_collect = [c \in Collectors |-> 0]
    /\ under_test = "pulses"
    /\ calls = <<>>

InitDiff ==
    /\ CloudIdle
    /\ MainIdle
    /\ gateway = GatewayInit
    /\ pulse = NoPulse
    /\ diff \in { [current |-> c, previous |-> p, done |-> FALSE, result |-> 0] :
                    c \in CounterValues, p \in CounterValues }
    /\ ShutterIdle

\* Gateway.__counter_diff(diff.current, diff.previous)
CounterDiff ==
    /\ ~diff.done
    /\ diff' = [diff EXCEPT !.done = TRUE,
                            !.result = counter_diff(diff.current, diff.previous)]
    /\ UNCHANGED <<shutterVars, now, cloudVars, log, collectorVars, mainVars, gateway, pulse>>

NextDiff == CounterDiff

SpecDiff == InitDiff /\ [][NextDiff]_vars

----------------------------------------------------------------------------
(* Harness of class Gateway: one Gateway object sampling the pulse counters *)

\* values a pulse counter is sampled at
SampleValues == {0, 5, 65530}

\* the lists of 24 counters the Local API reports
PulseSamples ==
    { [i \in CounterIndices |-> IF i % 2 = 0 THEN a ELSE b] :
        a \in SampleValues, b \in SampleValues }

PulseResponses ==
    { FailedPulse(k) : k \in PulseFailures } \cup { PulseStatus(c) : c \in PulseSamples }

InitGateway ==
    /\ CloudIdle
    /\ MainIdle
    /\ GatewayIdle
    /\ ShutterIdle

\* one call of get_pulse_counter_diff
PulseSample ==
    /\ pulse.successes < MaxSamples
    /\ \E data \in PulseResponses :
        LET r == get_pulse_counter_diff(gateway, data)
        IN  /\ gateway' = r.self
            /\ pulse' =
                [data |-> data, before |-> gateway, ret |-> r.ret,
                 successes |-> pulse.successes + (IF data.kind = "ok" THEN 1 ELSE 0),
                 calls |-> IF pulse.calls < MaxSamples THEN pulse.calls + 1
                           ELSE pulse.calls,
                 after_failure |-> pulse.calls > 0 /\ pulse.data.kind \in PulseFailures,
                 first |-> IF data.kind = "ok" /\ pulse.first = NoCounters
                           THEN data.counters ELSE pulse.first,
                 latest |-> IF data.kind = "ok" THEN data.counters ELSE pulse.latest,
                 sum |-> IF r.ret = NoCounters THEN pulse.sum
                         ELSE [i \in CounterIndices |-> pulse.sum[i] + r.ret[i]]]
    /\ UNCHANGED <<shutterVars, now, cloudVars, log, collectorVars, mainVars, diff>>

NextGateway == PulseSample

SpecGateway == InitGateway /\ [][NextGateway]_vars

----------------------------------------------------------------------------
(* Harness of ShutterStatus.__create_states: one call on a module *)

\* values of up_down_config
UpDownConfigs == {0, 1, 255}

\* the configurations of a module the calls are made on
DecodeConfigs ==
    { [i \in ShutterIndices |->
            [up_down_config |-> c[i], timer_up |-> 20, timer_down |-> 40]] :
        c \in [ShutterIndices -> UpDownConfigs] }

\* the status bytes of a module
StatusBytes == 0..255

InitDecode ==
    /\ CloudIdle
    /\ MainIdle
    /\ GatewayIdle
    /\ decoded \in { [config |-> cfg, state |-> st, done |-> FALSE,
                      result |-> [i \in ShutterIndices |-> "stopped"]] :
                        cfg \in DecodeConfigs, st \in StatusBytes }
    /\ shutters = ShutterInit(IdleConfig, 0, 0)
    /\ update = NoUpdate

\* self.__create_states(decoded.config, decoded.state)
CreateStates ==
    /\ ~decoded.done
    /\ decoded' = [decoded EXCEPT !.done = TRUE,
                                  !.result = create_states(decoded.config, decoded.state)]
    /\ UNCHANGED <<now, cloudVars, log, collectorVars, mainVars, gatewayVars,
                   shutters, update>>

NextDecode == CreateStates

SpecDecode == InitDecode /\ [][NextDecode]_vars

----------------------------------------------------------------------------
(* Harness of class ShutterStatus: one module, updates at arbitrary times *)

\* the module: shutter 0 has output 0 configured, shutter 1 output 1; the
\* timers are 20 s up and 40 s down
ShutterConfig ==
    [i \in ShutterIndices |->
        [up_down_config |-> IF i = 1 THEN 1 ELSE 0, timer_up |-> 20, timer_down |-> 40]]

\* the status bytes of the updates: every combination of the two outputs of
\* shutter 0, and either output of shutter 1
ShutterStatuses == {0, 1, 2, 3, 4, 8}

\* seconds that may pass between two updates
ShutterSteps == {9, 10}

InitShutters ==
    /\ CloudIdle
    /\ MainIdle
    /\ GatewayIdle
    /\ decoded = NoDecode
    /\ \E st \in ShutterStatuses :
        /\ shutters = ShutterInit(ShutterConfig, st, StartTime)
        /\ update = [status |-> st, at |-> StartTime, n |-> 0,
                     before |-> ShutterInit(ShutterConfig, st, StartTime).timestamped_states]

ShutterWait ==
    /\ \E d \in ShutterSteps :
        /\ now + d <= StartTime + ShutterMaxElapsed
        /\ now' = now + d
    /\ UNCHANGED <<cloudVars, log, collectorVars, mainVars, gatewayVars, shutterVars>>

\* one call of handle_shutter_update
ShutterUpdate ==
    /\ update.n < MaxUpdates
    /\ \E st \in ShutterStatuses :
        /\ shutters' = handle_shutter_update(shutters, st, now)
        /\ update' = [status |-> st, at |-> now, n |-> update.n + 1,
                      before |-> shutters.timestamped_states]
    /\ UNCHANGED <<now, cloudVars, log, collectorVars, mainVars, gatewayVars, decoded>>

NextShutters == ShutterWait \/ ShutterUpdate

SpecShutters == InitShutters /\ [][NextShutters]_vars

----------------------------------------------------------------------------
(* class VpnController, reboot_gateway and main() *)

\* value of config_controller.get_setting('cloud_enabled')
Flags == {"True", "False", "None"}

GetSettingEvent(flag) ==
    CASE flag = "True"  -> "get_setting->True"
      [] flag = "False" -> "get_setting->False"
      [] OTHER          -> "get_setting->None"

\* the test `cloud_enabled is False`
cloud_disabled(flag) == flag = "False"

\* a reconciliation that does not look at the state check_vpn reported
set_vpn_blind(desired, active, cmd_ok) ==
    LET query == IF active THEN "check_vpn->True" ELSE "check_vpn->False"
        led   == IF desired THEN "set_led(vpn,True)" ELSE "set_led(vpn,False)"
    IN  IF desired
        THEN [active |-> active \/ cmd_ok, events |-> <<query, "start_vpn", led>>]
        ELSE [active |-> active /\ ~cmd_ok, events |-> <<query, "stop_vpn", led>>]

\* a reconciliation that can start the tunnel and never stops it
set_vpn_start_only(desired, active, cmd_ok) ==
    LET is_open == active
        query   == IF is_open THEN "check_vpn->True" ELSE "check_vpn->False"
        led     == IF desired THEN "set_led(vpn,True)" ELSE "set_led(vpn,False)"
    IN  IF desired /\ ~is_open
        THEN [active |-> cmd_ok, events |-> <<query, "start_vpn", led>>]
        ELSE [active |-> active, events |-> <<query, led>>]

\* main.set_vpn(desired) when openvpn.service is `active` and the systemctl
\* start/stop command, if one is issued, succeeds iff cmd_ok.  Yields the
\* state of the service afterwards and the collaborator calls made.
set_vpn(desired, active, cmd_ok) ==
    LET is_open == active
        query   == IF is_open THEN "check_vpn->True" ELSE "check_vpn->False"
        led     == IF desired THEN "set_led(vpn,True)" ELSE "set_led(vpn,False)"
    IN  IF desired /\ ~is_open
        THEN [active |-> cmd_ok, events |-> <<query, "start_vpn", led>>]
        ELSE IF ~desired /\ is_open
        THEN [active |-> ~cmd_ok, events |-> <<query, "stop_vpn", led>>]
        ELSE [active |-> active, events |-> <<query, led>>]

\* a watchdog that already fires at the minimum-observation threshold
should_reboot_early(iters, last_connect, t) ==
    iters >= MIN_ITERATIONS /\ last_connect < t - REBOOT_TIMEOUT

\* a watchdog that looks at the iteration counter only
should_reboot_counter_only(iters, last_connect, t) ==
    iters > MIN_ITERATIONS

\* the watchdog condition of main()
should_reboot(iters, last_connect, t) ==
    iters > MIN_ITERATIONS /\ last_connect < t - REBOOT_TIMEOUT

\* sleep_time values the responses seen by the main loop carry
MainSleepTimes == {0, 1000, -1}

\* the round trips of the main loop
MainResponses ==
    { FailedResponse("network_error"),
      JsonResponse(FALSE, FALSE, FALSE, 0, FALSE, <<>>, {}),
      JsonResponse(TRUE, FALSE, TRUE, 0, TRUE, <<"x">>, {"x"}) }
    \cup
    { JsonResponse(TRUE, o, hasS, s, FALSE, <<>>, {}) :
        o \in BOOLEAN, hasS \in BOOLEAN, s \in MainSleepTimes }

\* how the collectors' functions behave in one tick of the main loop
MainOutcomes ==
    { [c \in Collectors |-> "value"],
      [c \in Collectors |-> IF c \in {"outputs", "errors"} THEN "raise" ELSE "none"],
      [c \in Collectors |-> IF c \in {"power", "pulses"} THEN "value"
                            ELSE IF c = "update" THEN "raise" ELSE "none"] }

Init ==
    /\ now = StartTime
    /\ cloud = CloudInit(StartTime)
    /\ should_open = FALSE
    /\ raised = FALSE
    /\ last_call = NoCall(CloudInit(StartTime))
    /\ log = <<>>
    /\ last_collect = [c \in Collectors |-> 0]
    /\ under_test = "outputs"
    /\ calls = <<>>
    /\ pc = "loop"
    /\ iterations = 0
    /\ vpn_data = EmptyBody
    /\ vpn_active \in BOOLEAN
    /\ slept = 0
    /\ rebooting = FALSE
    /\ GatewayIdle
    /\ ShutterIdle

\* t lies in one of the windows, each a pair <<first, last>> of clock readings
WithinWindows(t, windows) == \E w \in windows : t >= w[1] /\ t <= w[2]

MainWindows ==
    { <<StartTime, StartTime + MaxEarlyElapsed>>,
      <<StartTime + LateElapsed, StartTime + MaxElapsed>> }

\* the clock readings at which the main loop is explored
Explored(t) == WithinWindows(t, MainWindows)

\* an enabled tick that reconciles the tunnel before it runs the watchdog
TickOrderReconcileFirst ==
    [check |-> "set_vpn", set_vpn |-> "watchdog", watchdog |-> "sleep"]

\* the steps of an enabled tick after the call of the control plane, each
\* with the step that follows it
TickOrder ==
    [check |-> "watchdog", watchdog |-> "set_vpn", set_vpn |-> "sleep"]

\* the collectors in the order main() calls them
CollectorOrder ==
    <<"thermostats", "pulses", "outputs", "power", "update", "errors", "local_ip">>

\* a payload that takes whatever collect() returned, None included
PayloadWithNone(data, r) ==
    LET new == { c \in Collectors : r[c].invoked }
    IN  [c \in DOMAIN data \cup new |->
            IF c \in new THEN r[c].result ELSE data[c]]

\* vpn_data after the loop over the collectors, r[c] being what collect()
\* of collector c yielded: an entry is stored iff the data is not None
Payload(data, r) ==
    LET new == { c \in Collectors : r[c].result # None }
    IN  [c \in DOMAIN data \cup new |->
            IF c \in new THEN r[c].result ELSE data[c]]

\* top of the loop: read the cloud_enabled flag and branch.  `log`, `calls`
\* and `last_call` start afresh: they describe the tick that begins here.
ReadFlagOf(flags, max_iterations) ==
    /\ pc = "loop"
    /\ iterations < max_iterations
    /\ \E flag \in flags :
        /\ log' = <<GetSettingEvent(flag)>>
        /\ IF cloud_disabled(flag)
           THEN pc' = "disabled_set_vpn" /\ UNCHANGED vpn_data
           ELSE pc' = "collect" /\ vpn_data' = EmptyBody
    /\ last_call' = NoCall(cloud)
    /\ calls' = <<>>
    /\ UNCHANGED <<shutterVars, gatewayVars, now, cloud, should_open, raised, last_collect, under_test,
                   iterations, vpn_active, slept, rebooting>>

ReadFlag == ReadFlagOf(Flags, MaxIterations)

\* disabled branch: set_vpn(False)
DisabledSetVpn ==
    /\ pc = "disabled_set_vpn"
    /\ \E cmd_ok \in BOOLEAN :
        LET r == set_vpn(FALSE, vpn_active, cmd_ok)
        IN  /\ vpn_active' = r.active
            /\ log' = log \o r.events
    /\ pc' = "disabled_sleep"
    /\ UNCHANGED <<shutterVars, gatewayVars, now, cloudVars, collectorVars, iterations, vpn_data,
                   slept, rebooting>>

\* a disabled branch that sleeps for the interval of the control plane
DisabledSleepCloudTime ==
    /\ pc = "disabled_sleep"
    /\ get_sleep_time(cloud) >= 0
    /\ Explored(now + get_sleep_time(cloud))
    /\ now' = now + get_sleep_time(cloud)
    /\ slept' = get_sleep_time(cloud)
    /\ log' = Append(log, "sleep")
    /\ pc' = "loop"
    /\ UNCHANGED <<shutterVars, gatewayVars, cloudVars, collectorVars, iterations, vpn_data,
                   vpn_active, rebooting>>

\* disabled branch: time.sleep(30); continue
DisabledSleep ==
    /\ pc = "disabled_sleep"
    /\ Explored(now + DISABLED_SLEEP_TIME)
    /\ now' = now + DISABLED_SLEEP_TIME
    /\ slept' = DISABLED_SLEEP_TIME
    /\ log' = Append(log, "sleep")
    /\ pc' = "loop"
    /\ UNCHANGED <<shutterVars, gatewayVars, cloudVars, collectorVars, iterations, vpn_data,
                   vpn_active, rebooting>>

\* the loop over the collectors: build vpn_data, the collectors' functions
\* behaving in one of the ways of outcomes
CollectOf(outcomes) ==
    /\ pc = "collect"
    /\ \E o \in outcomes :
        LET r == [c \in Collectors |->
                    collect(Period[c], last_collect[c], o[c], now)]
        IN  /\ last_collect' = [c \in Collectors |-> r[c].last]
            /\ vpn_data' = Payload(vpn_data, r)
            /\ calls' = [i \in 1..Len(CollectorOrder) |->
                            LET c == CollectorOrder[i]
                            IN  [name |-> c, at |-> now, outcome |-> o[c],
                                 before |-> last_collect[c], after |-> r[c].last,
                                 result |-> r[c].result, invoked |-> r[c].invoked]]
    /\ log' = Append(log, "collect")
    /\ pc' = "check"
    /\ UNCHANGED <<shutterVars, gatewayVars, now, cloudVars, under_test, iterations,
                   vpn_active, slept, rebooting>>

Collect == CollectOf(MainOutcomes)

\* should_open = cloud.should_open_vpn(vpn_data), the round trip being one
\* of responses and the clock staying within the windows explored
CheckOf(responses, windows) ==
    /\ pc = "check"
    /\ \E resp \in responses :
        LET t == now + RequestDuration(resp)
            r == should_open_vpn(cloud, resp, t)
        IN  /\ WithinWindows(t, windows)
            /\ now' = t
            /\ cloud' = r.self
            /\ should_open' = r.ret
            /\ raised' = r.raised
            /\ last_call' = [resp |-> resp, before |-> cloud, at |-> t]
            /\ log' = log \o r.events
            /\ pc' = IF r.raised THEN "crashed" ELSE TickOrder.check
    /\ UNCHANGED <<shutterVars, gatewayVars, collectorVars, iterations, vpn_data, vpn_active, slept,
                   rebooting>>

Check == CheckOf(MainResponses, MainWindows)

\* a watchdog that counts the tick before it tests the counter
WatchdogIncrementFirst ==
    /\ pc = "watchdog"
    /\ IF should_reboot(iterations + 1, get_last_connect(cloud), now)
       THEN /\ log' = Append(log, "reboot")
            /\ \E ok \in BOOLEAN : rebooting' = (rebooting \/ ok)
       ELSE UNCHANGED <<log, rebooting>>
    /\ iterations' = iterations + 1
    /\ pc' = TickOrder.watchdog
    /\ UNCHANGED <<shutterVars, gatewayVars, now, cloudVars, collectorVars, vpn_data, vpn_active, slept>>

\* the watchdog: reboot_gateway() if the condition holds, then iterations += 1.
\* The reboot command returns to the caller; it takes effect or fails.
Watchdog ==
    /\ pc = "watchdog"
    /\ IF should_reboot(iterations, get_last_connect(cloud), now)
       THEN /\ log' = Append(log, "reboot")
            /\ \E ok \in BOOLEAN : rebooting' = (rebooting \/ ok)
       ELSE UNCHANGED <<log, rebooting>>
    /\ iterations' = iterations + 1
    /\ pc' = TickOrder.watchdog
    /\ UNCHANGED <<shutterVars, gatewayVars, now, cloudVars, collectorVars, vpn_data, vpn_active, slept>>

\* set_vpn(should_open)
SetVpn ==
    /\ pc = "set_vpn"
    /\ \E cmd_ok \in BOOLEAN :
        LET r == set_vpn(should_open, vpn_active, cmd_ok)
        IN  /\ vpn_active' = r.active
            /\ log' = log \o r.events
    /\ pc' = TickOrder.set_vpn
    /\ UNCHANGED <<shutterVars, gatewayVars, now, cloudVars, collectorVars, iterations, vpn_data,
                   slept, rebooting>>

\* time.sleep(cloud.get_sleep_time()): raises for a negative duration, which
\* nothing in main() catches
SleepWithin(windows) ==
    /\ pc = "sleep"
    /\ LET d == get_sleep_time(cloud)
       IN  IF d < 0
           THEN /\ pc' = "crashed"
                /\ log' = Append(log, "sleep raised")
                /\ UNCHANGED <<now, slept>>
           ELSE /\ WithinWindows(now + d, windows)
                /\ now' = now + d
                /\ slept' = d
                /\ log' = Append(log, "sleep")
                /\ pc' = "loop"
    /\ UNCHANGED <<shutterVars, gatewayVars, cloudVars, collectorVars, iterations, vpn_data,
                   vpn_active, rebooting>>

Sleep == SleepWithin(MainWindows)

\* the host goes down after a reboot command that took effect
Killed ==
    /\ rebooting
    /\ pc \notin {"killed", "crashed"}
    /\ pc' = "killed"
    /\ UNCHANGED <<shutterVars, gatewayVars, now, cloudVars, log, collectorVars, iterations, vpn_data,
                   vpn_active, slept, rebooting>>

\* openvpn.service is started or stopped by something else between two ticks
ExternalVpnChange ==
    /\ pc = "loop"
    /\ vpn_active' = ~vpn_active
    /\ UNCHANGED <<shutterVars, gatewayVars, now, cloudVars, log, collectorVars, pc, iterations,
                   vpn_data, slept, rebooting>>

Next ==
    \/ ReadFlag
    \/ DisabledSetVpn
    \/ DisabledSleep
    \/ Collect
    \/ Check
    \/ Watchdog
    \/ SetVpn
    \/ Sleep
    \/ Killed
    \/ ExternalVpnChange

Spec == Init /\ [][Next]_vars

----------------------------------------------------------------------------
(* main() while the control plane becomes unreachable for good: the flag
   stays enabled, the first OutageStart ticks see any response, and from
   then on every round trip fails. *)

\* the round trips before the outage
OutageEarlyResponses ==
    { FailedResponse("network_error") }
    \cup
    { JsonResponse(TRUE, TRUE, hasS, s, FALSE, <<>>, {}) :
        hasS \in BOOLEAN, s \in MainSleepTimes }

\* The round trips of the current tick.  During the outage a request fails
\* at once or times out; time advances in every tick, so with a sleep of 0
\* seconds the tick lasts as long as its request, which times out.
OutageResponses ==
    IF iterations < OutageStart
    THEN OutageEarlyResponses
    ELSE IF get_sleep_time(cloud) > 0
         THEN { FailedResponse("network_error") }
         ELSE { FailedResponse("timeout") }

\* the clock readings up to which the outage is followed
OutageWindows == { <<StartTime, StartTime + OutageMaxElapsed>> }

OutageReadFlag == ReadFlagOf({"True", "None"}, OutageMaxIterations)

\* every collector yields a value
OutageCollect == CollectOf({ [c \in Collectors |-> "value"] })

OutageCheck == CheckOf(OutageResponses, OutageWindows)

OutageSleep == SleepWithin(OutageWindows)

NextOutage ==
    \/ OutageReadFlag
    \/ OutageCollect
    \/ OutageCheck
    \/ Watchdog
    \/ SetVpn
    \/ OutageSleep
    \/ Killed

\* main() is one thread whose every step ends (the requests have timeouts,
\* the sleep is finite): the loop keeps taking steps
SpecOutage == Init /\ [][NextOutage]_vars /\ WF_vars(NextOutage)

----------------------------------------------------------------------------
(* Properties of Cloud.should_open_vpn, checked under SpecCloud *)

\* the failures of the round trip the control-plane contract names
RoundTripFailed(resp) ==
    \/ resp.kind \in TransportFailures
    \/ resp.kind = "json" /\ "open_vpn" \notin DOMAIN resp.data

\* C1: whenever the round trip fails (network error, timeout, unparseable
\* body, or a parsed response without open_vpn) the call returns True and
\* raises nothing to the caller.
C1_FailSafeOpen ==
    RoundTripFailed(last_call.resp) => (should_open = TRUE /\ raised = FALSE)

\* a parsed response that lacks open_vpn has been answered with True
C1_Witness ==
    /\ last_call.resp.kind = "json"
    /\ "open_vpn" \notin DOMAIN last_call.resp.data
    /\ should_open = TRUE
    /\ raised = FALSE

\* C2: a call on the failure path leaves last_connect at its value from
\* before the call; last_connect changes only on a call that returns the
\* remote open_vpn value.
C2_LastConnectOnlyOnSuccess ==
    /\ RoundTripFailed(last_call.resp) =>
            get_last_connect(cloud) = get_last_connect(last_call.before)
    /\ get_last_connect(cloud) # get_last_connect(last_call.before) =>
            /\ last_call.resp.kind = "json"
            /\ "open_vpn" \in DOMAIN last_call.resp.data
            /\ should_open = last_call.resp.data["open_vpn"]

\* C3: after any failed check get_sleep_time() reports 30 seconds, whatever
\* sleep_time earlier responses had set.
C3_SleepTimeAfterFailure ==
    RoundTripFailed(last_call.resp) => get_sleep_time(cloud) = 30

\* C10: when a well-formed response carries a configuration with several
\* entries and set_setting fails for one of them, every other entry is still
\* applied, the call returns the response's open_vpn and last_connect is
\* updated.
C10_SettingFailureIsolated ==
    LET resp == last_call.resp IN
    ( /\ resp.kind = "json"
      /\ "open_vpn" \in DOMAIN resp.data
      /\ "configuration" \in DOMAIN resp.data
      /\ Len(resp.ord) >= 2
      /\ Cardinality(resp.failing) = 1 )
    =>
    ( /\ \A n \in Range(resp.ord) \ resp.failing :
            SetSettingEvent(n, TRUE) \in Range(log)
      /\ should_open = resp.data["open_vpn"]
      /\ get_last_connect(cloud) = last_call.at )

----------------------------------------------------------------------------
(* Properties of DataCollector.collect, checked under SpecCollector *)

\* C8: when the function of a collector with period # 0 raises, collect()
\* returns None, propagates nothing and leaves last_run as it was before the
\* call, so that the collector is still due at the next call.
C8_RaiseKeepsLastRun ==
    \A i \in 1..Len(calls) :
        (Period[under_test] # 0 /\ calls[i].invoked /\ calls[i].outcome = "raise")
        => /\ calls[i].result = None
           /\ calls[i].after = calls[i].before
           /\ (i < Len(calls) => calls[i + 1].invoked)

\* C9: collect() invokes the function iff period = 0 or now - last_run >=
\* period; a call that is not due returns None and leaves last_run alone; a
\* period-0 collector runs at every call; a period-60 collector called at t,
\* t + 10 and t + 61 yields (value, None, value).
C9_CollectWhenDue ==
    /\ \A i \in 1..Len(calls) :
        /\ calls[i].invoked <=>
            (Period[under_test] = 0 \/ calls[i].at - calls[i].before >= Period[under_test])
        /\ ~calls[i].invoked =>
            (calls[i].result = None /\ calls[i].after = calls[i].before)
        /\ Period[under_test] = 0 => calls[i].invoked
    /\ ( /\ Period[under_test] = 60
         /\ Len(calls) >= 3
         /\ calls[2].at = calls[1].at + 10
         /\ calls[3].at = calls[1].at + 61
         /\ calls[1].outcome = "value"
         /\ calls[3].outcome = "value" )
       => ( /\ calls[1].result = "value"
            /\ calls[2].result = None
            /\ calls[3].result = "value"
            /\ calls[3].after = calls[3].at )

\* the period-60 collector has been called at t, t + 10 and t + 61 and
\* yielded (value, None, value)
C9_Witness ==
    /\ Period[under_test] = 60
    /\ Len(calls) = 3
    /\ calls[2].at = calls[1].at + 10
    /\ calls[3].at = calls[1].at + 61
    /\ calls[1].result = "value"
    /\ ~calls[2].invoked
    /\ calls[2].result = None
    /\ calls[3].result = "value"

----------------------------------------------------------------------------
(* Properties of main(), checked under Spec *)

\* number of times the collaborator call e was made in the current tick
Count(e) == Cardinality({ i \in 1..Len(log) : log[i] = e })

\* the current tick read cloud_enabled as False
DisabledTick == log # <<>> /\ log[1] = "get_setting->False"

\* C4: in an enabled tick the reboot primitive is invoked iff the iteration
\* counter (before its increment) exceeds 20 and now - last_connect exceeds
\* 900 seconds.  Stated on the state the watchdog step leaves, where the
\* counter has just been incremented.
C4_RebootIff ==
    pc = "set_vpn" =>
        ( Count("reboot") = 1
          <=> (iterations - 1 > 20 /\ now - get_last_connect(cloud) > 900) )
        /\ Count("reboot") <= 1

\* counter at 25, last_connect 1000 s old: the reboot has been invoked
C4_Witness ==
    /\ pc = "set_vpn"
    /\ iterations - 1 = 25
    /\ now - get_last_connect(cloud) = 1000
    /\ Count("reboot") = 1

\* counter at 5, last_connect 1000 s old: no reboot
C4_BelowThreshold ==
    /\ pc = "set_vpn"
    /\ iterations - 1 = 5
    /\ now - get_last_connect(cloud) = 1000
    /\ Count("reboot") = 0

\* C5: once the watchdog has issued the reboot the process performs no
\* further step: no collaborator call (tunnel command, indicator, reboot),
\* no sleep and no further tick follows the reboot call.
C5_NothingAfterReboot ==
    [][Count("reboot") > 0 => (log' = log /\ now' = now /\ slept' = slept)]_vars

\* C6: a tick that reads the flag as False runs no collector, makes no
\* control-plane call, leaves the iteration counter alone, issues no reboot
\* and no start command, reconciles the tunnel toward closed and sleeps 30
\* seconds; the flag is read at the start of every tick and decides the
\* branch of that tick.
C6_DisabledTickInv ==
    /\ log # <<>> => log[1] \in { GetSettingEvent(f) : f \in Flags }
    /\ pc \in {"disabled_set_vpn", "disabled_sleep"} => DisabledTick
    /\ DisabledTick =>
        /\ pc \in {"disabled_set_vpn", "disabled_sleep", "loop", "killed"}
        /\ Range(log) \subseteq {"get_setting->False", "check_vpn->True",
                                 "check_vpn->False", "stop_vpn",
                                 "set_led(vpn,False)", "sleep"}
        /\ pc \in {"disabled_sleep", "loop"} =>
                (Count("check_vpn->True") + Count("check_vpn->False") = 1
                 /\ Count("set_led(vpn,False)") = 1)
        /\ pc = "loop" => (slept = 30 /\ log[Len(log)] = "sleep")

C6_DisabledTickStep ==
    (DisabledTick /\ pc # "loop") =>
        /\ iterations' = iterations
        /\ cloud' = cloud
        /\ last_collect' = last_collect
        /\ rebooting' = rebooting
        /\ now' \in {now, now + 30}

C6_DisabledTick == []C6_DisabledTickInv /\ [][C6_DisabledTickStep]_vars

\* a disabled tick has run to its end although the watchdog condition held
C6_Witness ==
    /\ pc = "loop"
    /\ DisabledTick
    /\ slept = 30
    /\ Count("stop_vpn") = 1
    /\ iterations > 20
    /\ now - get_last_connect(cloud) > 900

\* the state the reconciliation of the current tick is to reach
Desired == IF DisabledTick THEN FALSE ELSE should_open

\* C7: every reconciliation queries the tunnel state exactly once and issues
\* at most one command: a start only when desired is true and the query
\* reported inactive, a stop only when desired is false and the query
\* reported active, and none when the queried state equals the desired one.
C7_Reconcile ==
    LET queries == Count("check_vpn->True") + Count("check_vpn->False")
        starts  == Count("start_vpn")
        stops   == Count("stop_vpn")
    IN  /\ pc \in {"loop", "collect", "check", "watchdog", "set_vpn",
                   "disabled_set_vpn"} /\ ~(pc = "loop" /\ log # <<>>)
            => queries = 0 /\ starts = 0 /\ stops = 0
        /\ (pc \in {"sleep", "disabled_sleep"} \/ (pc = "loop" /\ log # <<>>)) =>
            /\ queries = 1
            /\ starts + stops <= 1
            /\ starts = 1 <=> (Desired /\ Count("check_vpn->False") = 1)
            /\ stops = 1 <=> (~Desired /\ Count("check_vpn->True") = 1)

\* actual = inactive, desired = true: exactly one start, no stop
C7_Witness ==
    /\ pc = "sleep"
    /\ should_open
    /\ Count("check_vpn->False") = 1
    /\ Count("start_vpn") = 1
    /\ Count("stop_vpn") = 0

----------------------------------------------------------------------------
(* Further properties of Cloud.should_open_vpn, checked under SpecCloud *)

\* C11: for every well-formed response that contains open_vpn the check
\* returns exactly that open_vpn value, sets sleep_time to the response's
\* sleep_time, issues one set_setting call per configuration entry, sets
\* last_connect to the current time and signals the connectivity indicator
\* healthy.
C11_WellFormedResponse ==
    LET resp == last_call.resp IN
    (resp.kind = "json" /\ "open_vpn" \in DOMAIN resp.data)
    =>
    ( /\ should_open = resp.data["open_vpn"]
      /\ raised = FALSE
      /\ "sleep_time" \in DOMAIN resp.data =>
            get_sleep_time(cloud) = resp.data["sleep_time"]
      /\ \A n \in Range(resp.ord) :
            Cardinality({ i \in 1..Len(log) : log[i] = SetSettingEvent(n, TRUE) }) = 1
      /\ get_last_connect(cloud) = last_call.at
      /\ "set_led(cloud,True)" \in Range(log)
      /\ "set_led(cloud,False)" \notin Range(log) )

\* C20: after a well-formed response that has no sleep_time field the
\* session's sleep_time is 30, even when an earlier response had set a
\* different value.
C20_DefaultSleepTime ==
    LET resp == last_call.resp IN
    (resp.kind = "json" /\ "sleep_time" \notin DOMAIN resp.data)
    => get_sleep_time(cloud) = 30

\* an earlier response had set 45 seconds; a response with open_vpn and no
\* sleep_time brought the session back to 30
C20_Witness ==
    /\ last_call.resp.kind = "json"
    /\ "open_vpn" \in DOMAIN last_call.resp.data
    /\ "sleep_time" \notin DOMAIN last_call.resp.data
    /\ get_sleep_time(last_call.before) = 45
    /\ get_sleep_time(cloud) = 30

----------------------------------------------------------------------------
(* Further properties of main(), checked under Spec *)

\* C12: no remote failure, collector failure or tunnel command failure ever
\* terminates the main loop, whatever the responses are (a well-formed
\* response with a negative sleep_time included): every enabled tick runs to
\* its end-of-tick sleep and the loop proceeds, unless the watchdog reboot
\* fired.
C12_LoopNeverTerminates ==
    pc = "crashed" => Cardinality({ i \in 1..Len(log) : log[i] = "reboot" }) > 0

\* C14: the end-of-tick sleep of an enabled tick is never 0 and never
\* negative.
C14_PositiveSleep ==
    (pc = "loop" /\ log # <<>> /\ ~DisabledTick /\ log[Len(log)] = "sleep")
    => slept > 0

\* the collaborator calls of a tunnel reconciliation
TunnelEvents ==
    {"check_vpn->True", "check_vpn->False", "start_vpn", "stop_vpn",
     "set_led(vpn,True)", "set_led(vpn,False)"}

\* the place of a logged call among the steps of an enabled tick, when the
\* reconciliation is step r and the watchdog is step w
Stage(e, r, w) ==
    CASE e \in {"get_setting->True", "get_setting->False", "get_setting->None"} -> 0
      [] e = "collect" -> 1
      [] e = "reboot" -> w
      [] e \in TunnelEvents -> r
      [] e \in {"sleep", "sleep raised"} -> 5
      [] OTHER -> 2

\* the calls logged in the current tick appear in the order of their steps
InOrder(r, w) ==
    \A i, j \in 1..Len(log) :
        i < j => Stage(log[i], r, w) <= Stage(log[j], r, w)

Reconciled == Range(log) \cap TunnelEvents # {}

C15_PayloadOfThisTick ==
    (~DisabledTick /\ "collect" \in Range(log)) =>
        LET yielded == { i \in 1..Len(calls) :
                            calls[i].invoked /\ calls[i].outcome = "value" }
        IN  /\ { calls[i].name : i \in 1..Len(calls) } = Collectors
            /\ \A i \in 1..Len(calls) :
                calls[i].invoked <=>
                    (Period[calls[i].name] = 0
                     \/ calls[i].at - calls[i].before >= Period[calls[i].name])
            /\ DOMAIN vpn_data = { calls[i].name : i \in yielded }
            /\ DOMAIN vpn_data \subseteq Collectors
            /\ \A k \in DOMAIN vpn_data : vpn_data[k] # None
            /\ pc \in {"watchdog", "set_vpn", "sleep"} =>
                Cardinality({ i \in 1..Len(log) : log[i] = "post" }) = 1

\* a later tick in which every collector was called, the scheduled ones were
\* not due, two functions returned None or raised and only `power` yielded a
\* value; the check has been made with that payload
C15_Witness ==
    /\ pc = "watchdog"
    /\ iterations >= 1
    /\ DOMAIN vpn_data = {"power"}
    /\ \E i \in 1..Len(calls) : calls[i].name = "pulses" /\ ~calls[i].invoked
    /\ \E i \in 1..Len(calls) : calls[i].name = "update" /\ calls[i].outcome = "raise"
    /\ "post" \in Range(log)

\* no collector yielded a value: the payload is empty and the check is made
C15_EmptyPayloadChecked ==
    /\ pc = "watchdog"
    /\ DOMAIN vpn_data = {}
    /\ "post" \in Range(log)

----------------------------------------------------------------------------
(* Properties of class Gateway, checked under SpecDiff and SpecGateway *)

\* C16: for all current and previous in 0..65535 the difference is current -
\* previous when that is >= 0 and 65536 - previous + current otherwise; it
\* lies in 0..65535, equals (current - previous) mod 65536, and previous +
\* difference is current mod 65536; diff(5, 65530) = 11, diff(100, 40) = 60,
\* diff(0, 0) = 0.
C16_CounterDiff ==
    diff.done =>
        LET c == diff.current
            p == diff.previous
            d == diff.result
        IN  /\ c \in 0..65535 /\ p \in 0..65535
            /\ c - p >= 0 => d = c - p
            /\ c - p < 0 => d = 65536 - p + c
            /\ d \in 0..65535
            /\ d = (c - p) % 65536
            /\ (p + d) % 65536 = c
            /\ (c = 5 /\ p = 65530) => d = 11
            /\ (c = 100 /\ p = 40) => d = 60
            /\ (c = 0 /\ p = 0) => d = 0

\* the counter wrapped between the two values: diff(5, 65530) = 11
C16_Witness ==
    /\ diff.done
    /\ diff.current = 5
    /\ diff.previous = 65530
    /\ diff.result = 11

\* C17: the first successful pulse-counter sample after start reports a
\* difference of 0 for every one of the 24 counters, whatever the sampled
\* values are, and records those values as the baseline of the next sample.
C17_FirstSample ==
    (pulse.data.kind = "ok" /\ pulse.successes = 1) =>
        /\ DOMAIN pulse.ret = 0..23
        /\ \A i \in 0..23 : pulse.ret[i] = 0
        /\ gateway.last_pulse_counters = pulse.data.counters

\* the first successful sample carried counters other than 0: all 24
\* differences are 0 and the sample is the baseline
C17_Witness ==
    /\ pulse.data.kind = "ok"
    /\ pulse.successes = 1
    /\ pulse.data.counters[0] = 65530
    /\ pulse.data.counters[1] = 5
    /\ \A i \in 0..23 : pulse.ret[i] = 0
    /\ gateway.last_pulse_counters = pulse.data.counters

\* C19: a failed start or stop is not retried within its tick, and every
\* tick queries the actual state of the service anew and issues the command
\* whenever that state differs from the desired one, be it left by a failed
\* command or changed from outside: a reconciliation ends with actual =
\* desired unless its one command failed, which leaves the state as it was
\* for the next tick to find.
C19_RetryNextTick ==
    [][ (pc \in {"set_vpn", "disabled_set_vpn"} /\ pc' \in {"sleep", "disabled_sleep"})
        =>
        LET desired  == IF pc = "disabled_set_vpn" THEN FALSE ELSE should_open
            new      == SubSeq(log', Len(log) + 1, Len(log'))
            commands == { i \in 1..Len(new) : new[i] \in {"start_vpn", "stop_vpn"} }
        IN  /\ new[1] = (IF vpn_active THEN "check_vpn->True" ELSE "check_vpn->False")
            /\ Cardinality(commands) <= 1
            /\ vpn_active # desired =>
                /\ Cardinality(commands) = 1
                /\ \A i \in commands :
                    new[i] = (IF desired THEN "start_vpn" ELSE "stop_vpn")
            /\ vpn_active = desired => commands = {} /\ vpn_active' = vpn_active
            /\ vpn_active' = desired \/ (vpn_active' = vpn_active /\ commands # {})
      ]_vars

\* in a tick after the first the service was found inactive although the
\* tunnel is to be open; the start was issued and took effect
C19_Witness ==
    /\ pc = "sleep"
    /\ iterations >= 2
    /\ should_open
    /\ Count("check_vpn->False") = 1
    /\ Count("start_vpn") = 1
    /\ vpn_active

----------------------------------------------------------------------------
(* Property of the watchdog during an outage, checked under SpecOutage *)

\* a reboot command has been issued in this tick or has taken effect
RebootIssued == Count("reboot") > 0 \/ rebooting

\* C18: if the control plane stays unreachable (every check fails) from some
\* point on while the flag stays enabled and time advances, the watchdog
\* eventually issues a host reboot.
C18_OutageLeadsToReboot ==
    ( /\ pc = "watchdog"
      /\ iterations >= OutageStart
      /\ last_call.resp.kind \in TransportFailures )
    ~> RebootIssued

\* the watchdog fired in a tick of the outage
C18_Witness ==
    /\ pc = "set_vpn"
    /\ iterations > OutageStart
    /\ last_call.resp.kind \in TransportFailures
    /\ Count("reboot") = 1

----------------------------------------------------------------------------
(* Properties of the watchdog's two thresholds, checked under Spec *)

\* C23: the watchdog never issues a reboot in a tick in which the check
\* updated last_connect: every reboot is issued in a tick whose check did not
\* reach the assignment of last_connect and left it as it was.
C23_NoRebootAfterContact ==
    Count("reboot") > 0 =>
        /\ last_call.resp.kind # "none"
        /\ "set_led(cloud,True)" \notin Range(log)
        /\ get_last_connect(cloud) = get_last_connect(last_call.before)
        /\ get_last_connect(cloud) < last_call.at - REBOOT_TIMEOUT

\* the watchdog fired in a tick whose round trip failed, with a last_connect
\* that an earlier tick had set
C23_Witness ==
    /\ Count("reboot") = 1
    /\ last_call.resp.kind = "network_error"
    /\ get_last_connect(cloud) > StartTime
    /\ get_last_connect(cloud) = get_last_connect(last_call.before)

\* C24: the iteration counter starts at 0, is compared with 20 before it is
\* incremented and is incremented only in enabled ticks, once in each: no
\* reboot is issued during the first 21 enabled ticks, however stale
\* last_connect is, the 22nd enabled tick is the earliest that can reboot,
\* and disabled ticks neither advance nor reset the counter.
C24_CounterInv ==
    /\ Count("reboot") > 0 => (~DisabledTick /\ iterations >= 22)
    /\ (pc \in {"set_vpn", "sleep"} /\ iterations <= 21) => Count("reboot") = 0
    /\ DisabledTick => pc \in {"disabled_set_vpn", "disabled_sleep", "loop", "killed"}

C24_CounterStep ==
    /\ (pc = "watchdog" /\ pc' # "killed") => iterations' = iterations + 1
    /\ pc # "watchdog" => iterations' = iterations
    /\ (pc = "check" /\ pc' \notin {"check", "killed"}) => pc' = "watchdog"
    /\ (pc = "loop" /\ pc' = "collect") => log' # <<"get_setting->False">>
    /\ (pc = "loop" /\ pc' = "disabled_set_vpn") => log' = <<"get_setting->False">>

C24_FirstTicksNoReboot ==
    /\ iterations = 0
    /\ []C24_CounterInv
    /\ [][C24_CounterStep]_vars

\* the 22nd enabled tick issued the reboot; the tick before it slept the 30
\* seconds of the disabled branch
C24_Witness ==
    /\ pc = "set_vpn"
    /\ iterations = 22
    /\ Count("reboot") = 1
    /\ slept = DISABLED_SLEEP_TIME

----------------------------------------------------------------------------
(* Properties of the pulse-counter baseline, checked under SpecGateway *)

\* the baseline moves only on a successful read: a failed read returns None
\* and leaves it alone, and a successful read reports every counter's
\* difference from the last successful sample
BaselineIsLatestSample ==
    /\ gateway.last_pulse_counters = pulse.latest
    /\ (pulse.calls > 0 /\ pulse.data.kind \in PulseFailures) =>
        /\ pulse.ret = NoCounters
        /\ gateway = pulse.before
    /\ (pulse.data.kind = "ok" /\ pulse.successes >= 2) =>
        \A i \in 0..23 :
            pulse.ret[i] =
                (pulse.data.counters[i] - pulse.before.last_pulse_counters[i]) % 65536

\* C25 as stated: the baseline changes only on a successful read, and for
\* each counter the sum of all differences reported since the first sample
\* equals (latest sampled value - first sampled value) mod 65536.
C25_SumOfDeltas ==
    /\ BaselineIsLatestSample
    /\ pulse.successes >= 1 =>
        \A i \in 0..23 :
            pulse.sum[i] = (pulse.latest[i] - pulse.first[i]) % 65536

\* C25 with the sum taken modulo the counter range: the baseline changes
\* only on a successful read, and for each counter the sum of all
\* differences reported since the first sample is congruent modulo 65536 to
\* latest sampled value - first sampled value.
C25_SumOfDeltasCongruent ==
    /\ BaselineIsLatestSample
    /\ pulse.successes >= 1 =>
        \A i \in 0..23 :
            pulse.sum[i] % 65536 = (pulse.latest[i] - pulse.first[i]) % 65536

\* a read failed between two successful samples, and a counter wrapped from
\* 65530 to 5 between them: the difference reported is 11
C25_Witness ==
    /\ pulse.data.kind = "ok"
    /\ pulse.successes = 2
    /\ pulse.after_failure
    /\ pulse.before.last_pulse_counters[0] = 65530
    /\ pulse.data.counters[0] = 5
    /\ pulse.ret[0] = 11
    /\ pulse.sum[0] = 11

----------------------------------------------------------------------------
(* Properties of class ShutterStatus, checked under SpecDecode and
   SpecShutters *)

\* C21: __create_states decodes shutter i of a module (i in 0..3,
\* module_state in 0..255) so that with up_down_config = 0 the shutter's
\* output 0 (bit 2*i) is the `up` output and with up_down_config # 0 its
\* output 1 (bit 2*i+1) is; the state is going_up when the up bit is set,
\* else going_down when the down bit is set, else stopped.
C21_CreateStates ==
    decoded.done =>
        \A i \in 0..3 :
            LET output0 == (decoded.state \div (2 ^ (2 * i))) % 2
                output1 == (decoded.state \div (2 ^ (2 * i + 1))) % 2
                zero    == decoded.config[i].up_down_config = 0
                up      == IF zero THEN output0 ELSE output1
                down    == IF zero THEN output1 ELSE output0
            IN  decoded.result[i] =
                    (IF up = 1 THEN "going_up"
                     ELSE IF down = 1 THEN "going_down"
                     ELSE "stopped")

\* C22: a tracked shutter becomes up (resp. down) only on an update that
\* reports it stopped while it was tracked as going_up (resp. going_down)
\* for at least 0.95 * timer_up (resp. timer_down) since that movement
\* started; a shorter run yields stopped; an update that reports stopped for
\* a shutter tracked as up, down or stopped, or that reports the state
\* tracked, changes neither its state nor its timestamp.
C22_ShutterUpdate ==
    update.n > 0 =>
        \A i \in 0..3 :
            LET old  == update.before[i]
                new  == shutters.timestamped_states[i]
                cur  == create_states(shutters.configs, update.status)[i]
                ran  == 100 * (update.at - old.t)
                cfg  == shutters.configs[i]
            IN  /\ (new.state = "up" /\ old.state # "up") =>
                    /\ cur = "stopped" /\ old.state = "going_up"
                    /\ ran >= 95 * cfg.timer_up
                /\ (new.state = "down" /\ old.state # "down") =>
                    /\ cur = "stopped" /\ old.state = "going_down"
                    /\ ran >= 95 * cfg.timer_down
                /\ (cur = "stopped" /\ old.state = "going_up") =>
                    new = [t |-> update.at,
                           state |-> IF ran >= 95 * cfg.timer_up
                                     THEN "up" ELSE "stopped"]
                /\ (cur = "stopped" /\ old.state = "going_down") =>
                    new = [t |-> update.at,
                           state |-> IF ran >= 95 * cfg.timer_down
                                     THEN "down" ELSE "stopped"]
                /\ (cur = "stopped" /\ old.state \in {"up", "down", "stopped"}) =>
                    new = old
                /\ cur = old.state => new = old

\* shutter 0 was reported stopped exactly 19 s = 0.95 * 20 s after it had
\* started going up: it is up
C22_Witness ==
    /\ update.n > 0
    /\ update.before[0].state = "going_up"
    /\ update.at - update.before[0].t = 19
    /\ shutters.timestamped_states[0] = [t |-> update.at, state |-> "up"]

\* shutter 0 was reported stopped 18 s after it had started going up
C22_ShortRun ==
    /\ update.n > 0
    /\ update.before[0].state = "going_up"
    /\ update.at - update.before[0].t = 18
    /\ shutters.timestamped_states[0] = [t |-> update.at, state |-> "stopped"]

====
